---- MODULE Spec2Model ----
(***************************************************************************)
(* Model of two adapters of the integrations repository:                   *)
(*   - va-okta  (src/integrations/va-okta/src/index.tsx): the visitor      *)
(*     authentication redirect initiator and the /visitor-auth/response    *)
(*     callback handler (token exchange, re-signing, redirect);            *)
(*   - gitlab   (src/integrations/gitlab/src/events.ts): the webhook       *)
(*     reconciliation done on space_installation_setup events.             *)
(* Strings the code takes apart (state, location) are sequences of         *)
(* one-character strings; opaque strings (ids, keys, urls) are TLA+        *)
(* strings. A handler is a sequence of steps, one per await of the code.   *)
(***************************************************************************)
EXTENDS Integers, Sequences, FiniteSets, TLC

\* ------------------------------------------------------------------ bounds
\* Longest location / raw state string (in characters) that is enumerated.
MaxLen == 2
\* Number of space_installation_setup events delivered in one behaviour.
MaxEvents == 2

\* -------------------------------------------------------------- JS values
\* The JavaScript value undefined of an optional string field.
Undefined == "<undefined>"

\* JavaScript truthiness of an optional string: undefined and "" are falsy.
Truthy(s) == s # Undefined /\ s # ""

\* Strings over a character set, of length at most n.
RECURSIVE StringsUpTo(_, _)
StringsUpTo(chars, n) ==
    IF n = 0 THEN {<<>>}
    ELSE LET shorter == StringsUpTo(chars, n - 1)
         IN  shorter \cup {Append(s, c) : s \in shorter, c \in chars}

\* String.prototype.indexOf(ch): 0-based index of the first ch, or -1.
IndexOf(s, ch) ==
    IF \E i \in 1..Len(s) : s[i] = ch
    THEN (CHOOSE i \in 1..Len(s) : s[i] = ch /\ \A j \in 1..(i - 1) : s[j] # ch) - 1
    ELSE -1

\* String.prototype.substring(start): start is clamped to [0, length].
Substring(s, start) ==
    LET from == IF start < 0 THEN 0 ELSE IF start > Len(s) THEN Len(s) ELSE start
    IN  SubSeq(s, from + 1, Len(s))

\* An optional string that the code takes apart (query.state, event.location).
Absent == [present |-> FALSE, val |-> <<>>]
Some(s) == [present |-> TRUE, val |-> s]

\* ------------------------------------------------------- va-okta: values
\* Characters a location is made of; "-" is the separator of the state.
LocChars == {"-", "/", "a"}
Locations == StringsUpTo(LocChars, MaxLen)

\* The literal prefix of `state-${location}`.
StatePrefix == <<"s", "t", "a", "t", "e", "-">>

\* `state-${location}` as built by fetch_visitor_authentication.
BuildState(location) == StatePrefix \o location

\* A decoding that cuts after the last "-" instead of the first: C3 fails
\* with it.
DecodeLastDash(state) ==
    IF state.present /\ state.val # <<>>
    THEN LET dashes == {i \in 1..Len(state.val) : state.val[i] = "-"}
             last == IF dashes = {} THEN 0
                     ELSE CHOOSE i \in dashes : \A j \in dashes : j <= i
         IN  SubSeq(state.val, last + 1, Len(state.val))
    ELSE <<>>

\* The decoding of query.state in the callback handler:
\*   state ? state.substring(state.indexOf('-') + 1) : ''
DecodeLocation(state) ==
    IF state.present /\ state.val # <<>>
    THEN Substring(state.val, IndexOf(state.val, "-") + 1)
    ELSE <<>>

\* event.location ? event.location : ''
EventLocation(loc) == IF loc.present /\ loc.val # <<>> THEN loc.val ELSE <<>>

\* Optional configuration strings: undefined, empty, or a value.
OptVals(v) == {Undefined, "", v}

OktaConfigurations ==
    [client_id : OptVals("cid"), client_secret : OptVals("sec"),
     okta_domain : OptVals("dev.okta.com")]

NoConfiguration ==
    [client_id |-> Undefined, client_secret |-> Undefined, okta_domain |-> Undefined]

\* environment.siteInstallation: undefined, or a record with its urls, site
\* and configuration.
NoSiteInstallation ==
    [defined |-> FALSE, publicEndpoint |-> Undefined, site |-> Undefined,
     configuration |-> NoConfiguration]

SiteInstallations ==
    {NoSiteInstallation} \cup
    [defined : {TRUE}, publicEndpoint : {Undefined, "https://int.example/v1"},
     site : {Undefined, "site1"}, configuration : OktaConfigurations]

\* The runtime environment of one request.
Environments ==
    [siteInstallation : SiteInstallations,
     organization : {Undefined, "org1"},
     signingSecret : {Undefined, "key1"}]

\* `${installationURL}/visitor-auth/response`
CallbackUrl(installationURL) == [base |-> installationURL, path |-> "/visitor-auth/response"]

\* JWT claims: a function from claim names to values.
ClaimKeys == {"sub", "email", "iat", "exp"}
ClaimValue(k) ==
    CASE k = "sub" -> "u1"
      [] k = "email" -> "a@b.com"
      [] k = "iat" -> 1000
      [] k = "exp" -> 2000
ClaimSets == {[k \in ks |-> ClaimValue(k)] : ks \in SUBSET ClaimKeys}
EmptyClaims == [k \in {} |-> 0]

\* Date.now() in milliseconds.
NowMsVals == {1999, 1000000}

\* A sanitizer that forgets to drop iat: C10 fails with it.
SanitizeKeepIat(claims) ==
    [k \in (DOMAIN claims) \ {"exp"} |-> claims[k]]

\* sanitizeJWTTokenClaims: every entry but iat and exp.
sanitizeJWTTokenClaims(claims) ==
    [k \in (DOMAIN claims) \ {"iat", "exp"} |-> claims[k]]

\* The object handed to jwt.sign:
\*   { ...sanitizeJWTTokenClaims(payload || {}), exp: floor(now / 1000) + 1 * (60 * 60) }
SignerClaims(payload, nowMs) ==
    LET kept == sanitizeJWTTokenClaims(IF payload.defined THEN payload.claims ELSE EmptyClaims)
    IN  [k \in (DOMAIN kept) \cup {"exp"} |->
            IF k = "exp" THEN (nowMs \div 1000) + 1 * (60 * 60) ELSE kept[k]]

\* The response of the token endpoint: its ok flag and its body. A body is a
\* JSON object (error fields and/or access_token), the JSON value null, or
\* text that is not JSON.
JsonBody(err, tok) ==
    [kind |-> "json", error |-> err, error_description |-> err, access_token |-> tok]
TokenBodies ==
    {JsonBody("invalid_grant", Undefined)} \cup
    {JsonBody(Undefined, tok) : tok \in OptVals("at1")} \cup
    {[kind |-> k, error |-> Undefined, error_description |-> Undefined,
      access_token |-> Undefined] : k \in {"null", "not_json"}}
TokenResponses == [answered : {TRUE}, ok : BOOLEAN, body : TokenBodies]
NoTokenResponse ==
    [answered |-> FALSE, ok |-> FALSE, body |-> JsonBody(Undefined, Undefined)]

\* publishedContentData.data.urls
NoUrls == [defined |-> FALSE, published |-> Undefined]
PublishedUrls ==
    {NoUrls} \cup [defined : {TRUE}, published : {Undefined, "https://docs.example"}]

\* The decoded token: jwt.decode(...).payload, possibly undefined.
NoPayload == [defined |-> FALSE, claims |-> EmptyClaims]
Payloads == {NoPayload} \cup [defined : {TRUE}, claims : ClaimSets]

\* The call of jwt.sign: the claims and key it was given.
NotSigned == [called |-> FALSE, ok |-> FALSE, claims |-> EmptyClaims, key |-> Undefined]

\* The POST to the token endpoint.
NoTokenRequest ==
    [domain |-> Undefined, grant_type |-> Undefined, client_id |-> Undefined,
     client_secret |-> Undefined, code |-> Undefined,
     redirect_uri |-> CallbackUrl(Undefined)]

\* Urls of redirect responses.
NoUrl == [target |-> "none"]

\* An authorization url whose redirect_uri is the bare public endpoint: C13
\* fails with it.
AuthorizeUrlBareRedirect(domain, clientId, installationURL, location) ==
    [target |-> "authorize", okta_domain |-> domain, path |-> "/oauth2/v1/authorize",
     client_id |-> clientId, response_type |-> "code",
     redirect_uri |-> [base |-> installationURL, path |-> ""], response_mode |-> "query",
     scope |-> "openid", state |-> BuildState(location)]

\* https://${oktaDomain}/oauth2/v1/authorize with its search parameters, kept
\* as its parts.
AuthorizeUrl(domain, clientId, installationURL, location) ==
    [target |-> "authorize", okta_domain |-> domain, path |-> "/oauth2/v1/authorize",
     client_id |-> clientId, response_type |-> "code",
     redirect_uri |-> CallbackUrl(installationURL), response_mode |-> "query",
     scope |-> "openid", state |-> BuildState(location)]

\* new URL(`${publishedContentUrl}${location || ''}`) with jwt_token appended,
\* kept as its parts.
PublishedUrl(published, location, token) ==
    [target |-> "published", base |-> published, location |-> location,
     jwt_token |-> token]

\* Responses. kind: none (no answer yet), response (new Response(body, {status})),
\* redirect (Response.redirect(url)), undefined (the handler returned nothing),
\* thrown (the handler threw to its caller).
NoResponse == [kind |-> "none", status |-> 0, body |-> "", url |-> NoUrl]
Response(body, status) == [kind |-> "response", status |-> status, body |-> body, url |-> NoUrl]
Redirect(url) == [kind |-> "redirect", status |-> 302, body |-> "", url |-> url]
ReturnsUndefined == [kind |-> "undefined", status |-> 0, body |-> "", url |-> NoUrl]
Thrown(message) == [kind |-> "thrown", status |-> 0, body |-> message, url |-> NoUrl]

\* A router call without the catch, the error leaving the handler: C11 fails
\* with it.
CaughtByRouterRethrows(message, errStatus) == Thrown(message)

\* catch (error) { return new Response(error.message, { status: error.status || 500 }) }
CaughtByRouter(message, errStatus) ==
    Response(message, IF errStatus # 0 THEN errStatus ELSE 500)

\* The request of a fetch event: whether it is GET {base}/visitor-auth/response,
\* and its query.
NoRequest == [route |-> "none", code |-> Undefined, state |-> Absent, location |-> Absent]
RawStates == {Absent} \cup {Some(s) : s \in Locations}
Requests(states) ==
    [route : {"callback", "other"}, code : {Undefined, "c1"}, state : states,
     location : {Absent}]

\* The fetch_visitor_authentication event, with its location.
AuthenticationEvent(loc) ==
    [route |-> "fetch_visitor_authentication", code |-> Undefined, state |-> Absent,
     location |-> loc]

\* --------------------------------------------------------- gitlab: values
\* IntegrationInstallationStatus
Statuses == {"pending", "active", "paused"}

\* The absent hook_id of a configuration (a falsy value).
NoHook == 0

\* GitLabSpaceInstallationConfiguration, with the hook_id the handler adds to
\* it. defined is FALSE for a configuration that is undefined.
NoGitLabConf ==
    [defined |-> FALSE, project |-> Undefined, auth_token |-> Undefined,
     gitlab_host |-> Undefined, ref |-> Undefined, hook_id |-> NoHook]
EmptyGitLabConf == [NoGitLabConf EXCEPT !.defined = TRUE]
GitLabConfs(projects, tokens, hosts, refs, hookIds) ==
    [defined : {TRUE}, project : projects, auth_token : tokens, gitlab_host : hosts,
     ref : refs, hook_id : hookIds]

\* What the user can save as configuration of the installation.
UserConfs ==
    GitLabConfs({Undefined, "p1", "p2"}, {Undefined, "t1", "t2"},
                {"gitlab.com", "gl.example"}, {Undefined, "main"}, {NoHook})

\* shouldUpdateGitLabWebHook without the comparison of the projects: C5 fails
\* with it.
ShouldUpdateIgnoringProject(newConf, previous) ==
    \/ newConf.auth_token # previous.conf.auth_token
    \/ newConf.gitlab_host # previous.conf.gitlab_host
    \/ /\ previous.status = "pending"
       /\ ~Truthy(previous.conf.ref)
       /\ Truthy(newConf.ref)

\* shouldUpdateGitLabWebHook always asking for an update: C9 fails with it.
ShouldUpdateAlways(newConf, previous) == TRUE

\* shouldUpdateGitLabWebHook (events.ts 15-30), as the truthiness of its
\* result: the caller only negates it.
shouldUpdateGitLabWebHook(newConf, previous) ==
    \/ newConf.project # previous.conf.project
    \/ newConf.auth_token # previous.conf.auth_token
    \/ newConf.gitlab_host # previous.conf.gitlab_host
    \/ /\ previous.status = "pending"
       /\ ~Truthy(previous.conf.ref)
       /\ Truthy(newConf.ref)

\* A space_installation_setup event with the configuration the environment
\* holds when it is handled.
SetupEvent(status, prevStatus, prevConf, conf) ==
    [status |-> status,
     previous |-> [status |-> prevStatus, configuration |-> prevConf],
     configuration |-> conf]
NoEvent == SetupEvent("pending", "pending", NoGitLabConf, NoGitLabConf)

\* The decision without the early return on a pending status: C8 fails with it.
SetupDecisionNoPendingCheck(ev) ==
    IF ev.status \in {"active", "pending"}
    THEN IF ~Truthy(ev.configuration.project) \/ ~Truthy(ev.configuration.auth_token)
         THEN "throw"
         ELSE IF /\ ev.previous.configuration.defined
                 /\ ~shouldUpdateGitLabWebHook(ev.configuration,
                        [status |-> ev.previous.status, conf |-> ev.previous.configuration])
         THEN "return"
         ELSE IF ev.previous.configuration.defined
                 /\ ev.previous.configuration.hook_id # NoHook
         THEN "uninstall"
         ELSE "install"
    ELSE "return"

\* The decision without the uninstall of the previous webhook: C7 fails with it.
SetupDecisionNoUninstall(ev) ==
    IF ev.status = "pending" THEN "return"
    ELSE IF ev.status = "active"
    THEN IF ~Truthy(ev.configuration.project) \/ ~Truthy(ev.configuration.auth_token)
         THEN "throw"
         ELSE IF /\ ev.previous.configuration.defined
                 /\ ~shouldUpdateGitLabWebHook(ev.configuration,
                        [status |-> ev.previous.status, conf |-> ev.previous.configuration])
         THEN "return"
         ELSE "install"
    ELSE "return"

\* The synchronous part of handleSpaceInstallationSetupEvent (events.ts
\* 43-72): what the handler does first.
SetupDecision(ev) ==
    IF ev.status = "pending" THEN "return"
    ELSE IF ev.status = "active"
    THEN IF ~Truthy(ev.configuration.project) \/ ~Truthy(ev.configuration.auth_token)
         THEN "throw"
         ELSE IF /\ ev.previous.configuration.defined
                 /\ ~shouldUpdateGitLabWebHook(ev.configuration,
                        [status |-> ev.previous.status, conf |-> ev.previous.configuration])
         THEN "return"
         ELSE IF ev.previous.configuration.defined
                 /\ ev.previous.configuration.hook_id # NoHook
         THEN "uninstall"
         ELSE "install"
    ELSE "return"

\* A call the handler made: uninstall / install / update, the hook id it is
\* about, and whether it succeeded.
Call(op, id, ok) == [op |-> op, id |-> id, ok |-> ok]

VARIABLES
    \* gitlab
    hostConf,       \* the installation's configuration, as the host stores it
    hostStatus,     \* the installation's status, as the host stores it
    event,          \* the setup event being handled
    gpc,            \* position of the gitlab handler
    hooks,          \* ids of the webhooks registered at GitLab
    hookSeq,        \* the last hook id GitLab handed out
    newHookId,      \* newHookId of the handler
    calls,          \* the calls of the current run of the handler, in order
    outcome,        \* how the last run ended: none, returned, threw
    nEvents,        \* setup events delivered so far
    should          \* the last result of shouldUpdateGitLabWebHook

gitlabVars ==
    <<hostConf, hostStatus, event, gpc, hooks, hookSeq, newHookId, calls, outcome,
      nEvents, should>>

VARIABLES
    \* va-okta
    environment,    \* context.environment of the request
    request,        \* the fetch request being handled
    pc,             \* position of the va-okta handler
    urls,           \* publishedContentUrls
    tokenPosts,     \* number of POSTs to the token endpoint in this request
    tokenRequest,   \* the last POST sent to the token endpoint
    tokenResp,      \* oktaTokenResp
    accessToken,    \* oktaTokenData.access_token
    payload,        \* decodedOktaToken.payload
    clock,          \* Date.now() read when signing
    signed,         \* the call of jwt.sign
    response        \* what the handler gave back

oktaVars ==
    <<environment, request, pc, urls, tokenPosts, tokenRequest, tokenResp,
      accessToken, payload, clock, signed, response>>

vars == <<oktaVars, gitlabVars>>

\* The va-okta adapter before a request.
OktaIdle ==
    /\ request = NoRequest
    /\ pc = "idle"
    /\ urls = NoUrls
    /\ tokenPosts = 0
    /\ tokenRequest = NoTokenRequest
    /\ tokenResp = NoTokenResponse
    /\ accessToken = Undefined
    /\ payload = NoPayload
    /\ clock = 0
    /\ signed = NotSigned
    /\ response = NoResponse

\* The gitlab adapter before an event.
GitLabIdle ==
    /\ hostStatus = "pending"
    /\ event = NoEvent
    /\ gpc = "idle"
    /\ hooks = {}
    /\ hookSeq = 0
    /\ newHookId = NoHook
    /\ calls = <<>>
    /\ outcome = "none"
    /\ nEvents = 0
    /\ should = [evaluated |-> FALSE, result |-> FALSE]

OktaInit ==
    /\ environment \in Environments
    /\ OktaIdle
    /\ hostConf = NoGitLabConf
    /\ GitLabIdle

\* The handler ends with `r`.
Finish(r) ==
    /\ response' = r
    /\ pc' = "done"

\* fetch_visitor_authentication (index.tsx 329-353): the authorization
\* redirect initiator.
FetchVisitorAuthentication(loc) ==
    /\ pc = "idle"
    /\ request' = AuthenticationEvent(loc)
    /\ LET si == environment.siteInstallation
           oktaDomain == si.configuration.okta_domain
           clientId == si.configuration.client_id
           location == EventLocation(loc)
       IN  response' =
             IF ~si.defined THEN Thrown("No site installation found")
             ELSE IF ~Truthy(clientId) \/ ~Truthy(oktaDomain)
                  THEN Thrown("OIDC configuration is missing")
                  ELSE Redirect(AuthorizeUrl(oktaDomain, clientId, si.publicEndpoint, location))
    /\ pc' = "authDone"
    /\ UNCHANGED <<environment, urls, tokenPosts, tokenRequest, tokenResp,
                   accessToken, payload, clock, signed, gitlabVars>>

\* handleFetchEvent up to the route handler's first await (index.tsx 205-215,
\* 306-323): the site installation, the public endpoint, the router and the
\* site test.
StartFetch(req) ==
    /\ request' = req
    /\ LET si == environment.siteInstallation
       IN  IF ~si.defined THEN Finish(Thrown("No site installation found"))
           ELSE IF ~Truthy(si.publicEndpoint) THEN Finish(ReturnsUndefined)
           ELSE IF req.route # "callback"
                THEN Finish(Response("No route matching", 404))
           ELSE IF ~Truthy(si.site)
                THEN Finish(Response("No route matching", 404))
           ELSE response' = NoResponse /\ pc' = "getSite"
    /\ UNCHANGED <<environment, urls, tokenPosts, tokenRequest, tokenResp,
                   accessToken, payload, clock, signed, gitlabVars>>

\* A fetch event arrives: either any request, or the browser coming back from
\* the identity provider with the state of the authorization redirect.
HandleFetchEvent ==
    \/ /\ pc = "idle"
       /\ \E req \in Requests(RawStates) : StartFetch(req)
    \/ /\ pc = "authDone"
       /\ response.kind = "redirect"
       /\ \E req \in Requests({Some(response.url.state)}) : StartFetch(req)

\* !clientId || !clientSecret || !oktaDomain (index.tsx 222)
ConfigurationMissing(conf) ==
    ~Truthy(conf.client_id) \/ ~Truthy(conf.client_secret) \/ ~Truthy(conf.okta_domain)

\* getPublishedContentUrls (index.tsx 176-203, called at 216), then the
\* validation of the configuration (218-229). The host API answers with the
\* site's urls or fails with an error that may carry a status.
GetPublishedContentUrls ==
    /\ pc = "getSite"
    /\ IF ~Truthy(environment.organization)
       THEN /\ Finish(CaughtByRouter("No org ID found", 0))
            /\ UNCHANGED urls
       ELSE \/ \E errStatus \in {0, 404} :
                 /\ Finish(CaughtByRouter("getSiteById failed", errStatus))
                 /\ UNCHANGED urls
            \/ \E u \in PublishedUrls :
                 /\ urls' = u
                 /\ IF ConfigurationMissing(environment.siteInstallation.configuration)
                    THEN Finish(Response(
                           "Error: Either client id, client secret or okta domain is missing",
                           400))
                    ELSE response' = response /\ pc' = "fetchToken"
    /\ UNCHANGED <<environment, request, tokenPosts, tokenRequest, tokenResp,
                   accessToken, payload, clock, signed, gitlabVars>>

\* The POST to https://{okta_domain}/oauth2/v1/token/ (index.tsx 231-243):
\* the endpoint answers, or the fetch rejects.
FetchToken ==
    /\ pc = "fetchToken"
    /\ tokenPosts' = tokenPosts + 1
    /\ LET si == environment.siteInstallation
       IN  tokenRequest' =
             [domain |-> si.configuration.okta_domain,
              grant_type |-> "authorization_code",
              client_id |-> si.configuration.client_id,
              client_secret |-> si.configuration.client_secret,
              code |-> request.code,
              redirect_uri |-> CallbackUrl(si.publicEndpoint)]
    /\ \/ /\ Finish(CaughtByRouter("fetch failed", 0))
          /\ UNCHANGED tokenResp
       \/ \E r \in TokenResponses :
            /\ tokenResp' = r
            /\ response' = response
            /\ pc' = "readToken"
    /\ UNCHANGED <<environment, request, urls, accessToken, payload, clock, signed,
                   gitlabVars>>

\* A reading of the token endpoint's answer that does not test its ok flag:
\* C14 fails with it.
ReadTokenIgnoringOk(resp) ==
    IF resp.body.kind = "not_json" THEN CaughtByRouter("Unexpected token in JSON", 0)
    ELSE IF resp.body.kind = "null" THEN CaughtByRouter("Cannot read properties of null", 0)
    ELSE IF ~Truthy(resp.body.access_token)
    THEN Response("Error: No Access Token found in response from Okta", 401)
    ELSE NoResponse

\* What the handler answers to the token endpoint's response (index.tsx
\* 245-263), NoResponse when it goes on with the access token. json() rejects
\* on a body that is not JSON; reading a property of null throws.
ReadTokenDecision(resp) ==
    IF resp.body.kind = "not_json" THEN CaughtByRouter("Unexpected token in JSON", 0)
    ELSE IF ~resp.ok THEN Response("Error: Could not fetch token from Okta", 401)
    ELSE IF resp.body.kind = "null" THEN CaughtByRouter("Cannot read properties of null", 0)
    ELSE IF ~Truthy(resp.body.access_token)
    THEN Response("Error: No Access Token found in response from Okta", 401)
    ELSE NoResponse

\* Reading the answer of the token endpoint (index.tsx 245-263).
ReadToken ==
    /\ pc = "readToken"
    /\ LET decision == ReadTokenDecision(tokenResp)
       IN  IF decision # NoResponse
           THEN /\ Finish(decision)
                /\ UNCHANGED accessToken
           ELSE /\ accessToken' = tokenResp.body.access_token
                /\ response' = response
                /\ pc' = "decode"
    /\ UNCHANGED <<environment, request, urls, tokenPosts, tokenRequest, tokenResp,
                   payload, clock, signed, gitlabVars>>

\* jwt.decode(oktaTokenData.access_token) (index.tsx 266): the library gives
\* the payload (possibly none) or throws on a token it cannot decode.
DecodeToken ==
    /\ pc = "decode"
    /\ \/ /\ Finish(CaughtByRouter("token could not be decoded", 0))
          /\ UNCHANGED payload
       \/ \E p \in Payloads :
            /\ payload' = p
            /\ response' = response
            /\ pc' = "sign"
    /\ UNCHANGED <<environment, request, urls, tokenPosts, tokenRequest, tokenResp,
                   accessToken, clock, signed, gitlabVars>>

\* The answer after jwt.sign that redirects without looking at the published
\* url: C12 fails with it.
AfterSignNoUrlCheck(signOk, jwtToken) ==
    IF ~signOk
    THEN Response("Error: Could not sign JWT token", 500)
    ELSE Redirect(PublishedUrl(urls.published, DecodeLocation(request.state), jwtToken))

\* The answer once jwt.sign was called (index.tsx 272-302): the catch of a
\* throwing jwt.sign, the test of the published url, the redirect.
AfterSign(signOk, jwtToken) ==
    IF ~signOk
    THEN Response("Error: Could not sign JWT token", 500)
    ELSE IF ~(urls.defined /\ Truthy(urls.published))
    THEN Response("Error: Either JWT token or site's published URL is missing", 500)
    ELSE Redirect(PublishedUrl(urls.published, DecodeLocation(request.state), jwtToken))

\* The try block (index.tsx 267-302): the private key, jwt.sign, the
\* published url, the location decoded from the state, the redirect.
SignAndRedirect ==
    /\ pc = "sign"
    /\ LET privateKey == environment.signingSecret
       IN  IF ~Truthy(privateKey)
           THEN /\ Finish(Response("Error: Missing private key from site installation", 400))
                /\ UNCHANGED <<clock, signed>>
           ELSE \E nowMs \in NowMsVals, signOk \in BOOLEAN :
                  LET claims == SignerClaims(payload, nowMs)
                      jwtToken == [claims |-> claims, key |-> privateKey]
                  IN  /\ clock' = nowMs
                      /\ signed' = [called |-> TRUE, ok |-> signOk, claims |-> claims,
                                    key |-> privateKey]
                      /\ Finish(AfterSign(signOk, jwtToken))
    /\ UNCHANGED <<environment, request, urls, tokenPosts, tokenRequest, tokenResp,
                   accessToken, payload, gitlabVars>>

OktaNext ==
    \/ \E loc \in {Absent} \cup {Some(l) : l \in Locations} : FetchVisitorAuthentication(loc)
    \/ HandleFetchEvent
    \/ GetPublishedContentUrls
    \/ FetchToken
    \/ ReadToken
    \/ DecodeToken
    \/ SignAndRedirect

OktaSpec == OktaInit /\ [][OktaNext]_vars

\* ------------------------------------------------------ gitlab: operations
\* uninstallGitLabWebhook and installGitLabWebhook (./webhooks): their effect
\* on the webhooks registered at GitLab when they succeed.
HooksAfterUninstall(registered, hookId) == registered \ {hookId}
HooksAfterInstall(registered, hookId) == registered \cup {hookId}

\* The handler ends: it returned or threw.
EndSetup(how) ==
    /\ outcome' = how
    /\ gpc' = "idle"

\* The host delivers a space_installation_setup event: the user saved a
\* configuration (the host keeps the hook_id stored in it) and a status;
\* previous is what the installation was before (events.ts 40-41, 51, 59).
DeliverSetupEvent ==
    /\ gpc = "idle"
    /\ nEvents < MaxEvents
    /\ \E saved \in UserConfs, status \in Statuses :
         LET conf == [saved EXCEPT !.hook_id = hostConf.hook_id]
         IN  /\ event' = SetupEvent(status, hostStatus, hostConf, conf)
             /\ hostConf' = conf
             /\ hostStatus' = status
    /\ nEvents' = nEvents + 1
    /\ gpc' = "start"
    /\ outcome' = "none"
    /\ calls' = <<>>
    /\ newHookId' = NoHook
    /\ should' = [evaluated |-> FALSE, result |-> FALSE]
    /\ UNCHANGED <<hooks, hookSeq, oktaVars>>

\* handleSpaceInstallationSetupEvent up to its first await (events.ts 36-72).
StartSetup ==
    /\ gpc = "start"
    /\ LET decision == SetupDecision(event)
       IN  \/ decision = "return" /\ EndSetup("returned")
           \/ decision = "throw" /\ EndSetup("threw")
           \/ decision \in {"uninstall", "install"} /\ gpc' = decision /\ outcome' = outcome
    /\ should' =
         IF /\ event.status = "active"
            /\ Truthy(event.configuration.project)
            /\ Truthy(event.configuration.auth_token)
            /\ event.previous.configuration.defined
         THEN [evaluated |-> TRUE,
               result |-> shouldUpdateGitLabWebHook(event.configuration,
                            [status |-> event.previous.status,
                             conf |-> event.previous.configuration])]
         ELSE should
    /\ UNCHANGED <<hostConf, hostStatus, event, hooks, hookSeq, newHookId, calls,
                   nEvents, oktaVars>>

\* await uninstallGitLabWebhook(prevHookId, previousConfig) (events.ts 72-78):
\* the webhook is removed, or the call fails and the handler throws.
UninstallPrevious ==
    /\ gpc = "uninstall"
    /\ LET prevHookId == event.previous.configuration.hook_id
       IN  \/ /\ hooks' = HooksAfterUninstall(hooks, prevHookId)
              /\ calls' = Append(calls, Call("uninstall", prevHookId, TRUE))
              /\ gpc' = "install"
              /\ outcome' = outcome
           \/ /\ calls' = Append(calls, Call("uninstall", prevHookId, FALSE))
              /\ EndSetup("threw")
              /\ UNCHANGED hooks
    /\ UNCHANGED <<hostConf, hostStatus, event, hookSeq, newHookId, nEvents, should,
                   oktaVars>>

\* const newHookId = await installGitLabWebhook(...) (events.ts 80-83): GitLab
\* registers a webhook under a fresh id, or the call fails.
InstallNew ==
    /\ gpc = "install"
    /\ \/ /\ hookSeq' = hookSeq + 1
          /\ hooks' = HooksAfterInstall(hooks, hookSeq + 1)
          /\ newHookId' = hookSeq + 1
          /\ calls' = Append(calls, Call("install", hookSeq + 1, TRUE))
          /\ gpc' = "update"
          /\ outcome' = outcome
       \/ /\ calls' = Append(calls, Call("install", NoHook, FALSE))
          /\ EndSetup("threw")
          /\ UNCHANGED <<hooks, hookSeq, newHookId>>
    /\ UNCHANGED <<hostConf, hostStatus, event, nEvents, should, oktaVars>>

\* await api.integrations.updateIntegrationSpaceInstallation(..., { configuration:
\* { ...configuration, hook_id: newHookId } }) (events.ts 84-100): the host
\* stores the configuration, or the call fails.
PersistHookId ==
    /\ gpc = "update"
    /\ \/ /\ hostConf' = [event.configuration EXCEPT !.defined = TRUE,
                                                    !.hook_id = newHookId]
          /\ calls' = Append(calls, Call("update", newHookId, TRUE))
          /\ EndSetup("returned")
       \/ /\ calls' = Append(calls, Call("update", newHookId, FALSE))
          /\ EndSetup("threw")
          /\ UNCHANGED hostConf
    /\ UNCHANGED <<hostStatus, event, hooks, hookSeq, newHookId, nEvents, should,
                   oktaVars>>

GitLabInit ==
    /\ hostConf \in {NoGitLabConf, EmptyGitLabConf}
    /\ GitLabIdle
    /\ environment = [siteInstallation |-> NoSiteInstallation,
                      organization |-> Undefined, signingSecret |-> Undefined]
    /\ OktaIdle

GitLabNext ==
    \/ DeliverSetupEvent
    \/ StartSetup
    \/ UninstallPrevious
    \/ InstallNew
    \/ PersistHookId

GitLabSpec == GitLabInit /\ [][GitLabNext]_vars

\* --------------------------------------- gitlab: shouldUpdateGitLabWebHook
\* The arguments shouldUpdateGitLabWebHook is applied to.
ShouldUpdateConfs ==
    GitLabConfs({Undefined, "p1", "p2"}, {Undefined, "t1", "t2"},
                {Undefined, "gitlab.com", "gl.example"}, {Undefined, "", "main", "dev"},
                {NoHook})

ShouldUpdateInit ==
    /\ hostConf = NoGitLabConf
    /\ hostStatus = "pending"
    /\ \E newConf \in ShouldUpdateConfs, prevConf \in ShouldUpdateConfs,
          prevStatus \in Statuses :
         event = SetupEvent("active", prevStatus, prevConf, newConf)
    /\ gpc = "idle"
    /\ hooks = {}
    /\ hookSeq = 0
    /\ newHookId = NoHook
    /\ calls = <<>>
    /\ outcome = "none"
    /\ nEvents = 0
    /\ should = [evaluated |-> FALSE, result |-> FALSE]
    /\ environment = [siteInstallation |-> NoSiteInstallation,
                      organization |-> Undefined, signingSecret |-> Undefined]
    /\ OktaIdle

\* One application of shouldUpdateGitLabWebHook(newConf, previous).
ApplyShouldUpdate ==
    /\ ~should.evaluated
    /\ should' = [evaluated |-> TRUE,
                  result |-> shouldUpdateGitLabWebHook(event.configuration,
                               [status |-> event.previous.status,
                                conf |-> event.previous.configuration])]
    /\ UNCHANGED <<hostConf, hostStatus, event, gpc, hooks, hookSeq, newHookId, calls,
                   outcome, nEvents, oktaVars>>

ShouldUpdateNext == ApplyShouldUpdate

ShouldUpdateSpec == ShouldUpdateInit /\ [][ShouldUpdateNext]_vars

\* ================================================================= claims

\* The callback handler has answered a GET /visitor-auth/response request
\* that reached the route handler's body.
CallbackAnswered ==
    /\ pc = "done"
    /\ request.route = "callback"
    /\ environment.siteInstallation.defined
    /\ Truthy(environment.siteInstallation.publicEndpoint)
    /\ Truthy(environment.siteInstallation.site)

\* The callback handler has answered with the redirect to the published content.
RedirectedToPublished ==
    /\ pc = "done"
    /\ response.kind = "redirect"
    /\ response.url.target = "published"

\* C1: a callback whose configuration lacks client_id, client_secret or
\* okta_domain is answered with status 400, and no POST to the token endpoint
\* is issued, whatever the other inputs are.
C1_MissingConfigurationIs400 ==
    (CallbackAnswered /\ ConfigurationMissing(environment.siteInstallation.configuration))
        => /\ response.kind = "response"
           /\ response.status = 400
           /\ tokenPosts = 0

\* C2: a non-empty state without any "-" decodes to the empty location: the
\* browser is redirected to the published url itself.
C2_StateWithoutDashDecodesToEmpty ==
    (/\ RedirectedToPublished
     /\ request.state.present
     /\ request.state.val # <<>>
     /\ \A i \in 1..Len(request.state.val) : request.state.val[i] # "-")
        => response.url.location = <<>>

\* C3: the state `state-L` built by the authorization redirect is decoded by
\* the callback handler to exactly L, for every location L (empty, or with
\* any number of "-").
C3_StateRoundTrip ==
    RedirectedToPublished =>
        \A L \in Locations :
            request.state = Some(BuildState(L)) => response.url.location = L

\* C3 witness: the callback redirected to a location that contains a "-",
\* carried by the state of the authorization redirect.
C3_Witness ==
    /\ RedirectedToPublished
    /\ request.state = Some(BuildState(<<"/", "-">>))
    /\ response.url.location = <<"/", "-">>

\* C4: when the token endpoint answers with a non-success status, or with
\* success but no non-empty access_token, the handler answers 401 (no
\* redirect); for a non-success status the body is exactly "Error: Could not
\* fetch token from Okta".
C4_TokenFailureIs401 ==
    (/\ pc = "done"
     /\ tokenResp.answered
     /\ (~tokenResp.ok \/ ~Truthy(tokenResp.body.access_token)))
        => /\ response.kind = "response"
           /\ response.status = 401
           /\ (~tokenResp.ok => response.body = "Error: Could not fetch token from Okta")

\* C5: shouldUpdateGitLabWebHook(newConf, previous) is truthy exactly when the
\* project, the auth token or the host differs, or previous was pending
\* without a ref and newConf has a ref; a differing project alone gives true,
\* and with project, token and host equal and previous active it gives false.
C5_ShouldUpdateIff ==
    should.evaluated =>
        LET new == event.configuration
            old == event.previous.configuration
            changed == \/ new.project # old.project
                       \/ new.auth_token # old.auth_token
                       \/ new.gitlab_host # old.gitlab_host
            firstRef == /\ event.previous.status = "pending"
                        /\ old.ref \in {Undefined, ""}
                        /\ new.ref \notin {Undefined, ""}
        IN  /\ should.result <=> (changed \/ firstRef)
            /\ new.project # old.project => should.result
            /\ (~changed /\ event.previous.status = "active") => ~should.result

\* C5 witness: project, token and host are unchanged, previous was pending
\* without a ref, the new configuration has one, and the result is true.
C5_Witness ==
    /\ should.evaluated
    /\ should.result
    /\ event.configuration.project = event.previous.configuration.project
    /\ event.configuration.auth_token = event.previous.configuration.auth_token
    /\ event.configuration.gitlab_host = event.previous.configuration.gitlab_host
    /\ event.previous.status = "pending"
    /\ event.previous.configuration.ref = Undefined
    /\ event.configuration.ref = "main"

\* C6: after any sequence of setup events, failing calls included, at most
\* one webhook of the installation is registered at GitLab, and a successful
\* install leaves the new webhook as the only one.
C6_AtMostOneWebhook ==
    /\ Cardinality(hooks) <= 1
    /\ \A i \in 1..Len(calls) :
         (calls[i].op = "install" /\ calls[i].ok) => hooks = {calls[i].id}

\* Positions of the calls of one kind in the current run of the handler.
CallsOf(op) == {i \in 1..Len(calls) : calls[i].op = op}

\* C7: in a run that updates the webhook (status active), the old webhook is
\* uninstalled exactly when the previous configuration carries a hook_id, the
\* uninstall has completed before the install starts, and the configuration
\* update comes after the install returned and stores the id it returned.
C7_UninstallInstallPersistOrder ==
    LET old == event.previous.configuration
        hasPrevHook == old.defined /\ old.hook_id # NoHook
    IN  /\ (calls # <<>> \/ gpc \in {"uninstall", "install", "update"})
             => event.status = "active"
        /\ \A i \in CallsOf("uninstall") : hasPrevHook /\ calls[i].id = old.hook_id
        /\ gpc = "install" => (hasPrevHook <=> CallsOf("uninstall") # {})
        /\ \A i \in CallsOf("install") :
             /\ hasPrevHook <=> CallsOf("uninstall") # {}
             /\ \A j \in CallsOf("uninstall") : j < i /\ calls[j].ok
        /\ \A i \in CallsOf("update") :
             /\ \E j \in CallsOf("install") :
                  j < i /\ calls[j].ok /\ calls[j].id = calls[i].id /\ calls[i].id # NoHook
             /\ calls[i].ok =>
                  hostConf = [event.configuration EXCEPT !.hook_id = calls[i].id]

\* C7 witness: a run that uninstalled the previous webhook, installed a new
\* one and stored its id.
C7_Witness ==
    /\ gpc = "idle"
    /\ outcome = "returned"
    /\ Len(calls) = 3
    /\ calls[1].op = "uninstall" /\ calls[1].ok
    /\ calls[2].op = "install" /\ calls[2].ok
    /\ calls[3].op = "update" /\ calls[3].ok
    /\ hostConf.hook_id = calls[2].id

\* C8: a setup event whose status is pending makes the handler return
\* normally with no uninstall, no install and no configuration update,
\* whatever the current and previous configuration are.
C8_PendingIsNoOp ==
    [][(gpc = "start" /\ event.status = "pending")
          => /\ outcome' = "returned"
             /\ gpc' = "idle"
             /\ calls' = <<>>
             /\ hooks' = hooks
             /\ hookSeq' = hookSeq
             /\ hostConf' = hostConf]_vars

\* C8 witness: a pending event was handled while a webhook was registered and
\* the configuration had no project.
C8_Witness ==
    /\ gpc = "idle"
    /\ nEvents > 0
    /\ event.status = "pending"
    /\ outcome = "returned"
    /\ ~Truthy(event.configuration.project)
    /\ event.previous.configuration.hook_id # NoHook
    /\ hooks # {}

\* C9: when the new configuration is identical to the previous one and the
\* previous status was active, shouldUpdateGitLabWebHook is false and the
\* handler of an active event uninstalls nothing, installs nothing and does
\* not rewrite the configuration.
C9_IdenticalActiveIsNoOp ==
    [][(/\ gpc = "start"
        /\ event.status = "active"
        /\ event.previous.status = "active"
        /\ event.previous.configuration = event.configuration)
          => /\ ~shouldUpdateGitLabWebHook(event.configuration,
                    [status |-> event.previous.status,
                     conf |-> event.previous.configuration])
             /\ gpc' = "idle"
             /\ calls' = <<>>
             /\ hooks' = hooks
             /\ hookSeq' = hookSeq
             /\ hostConf' = hostConf]_vars

\* C9 witness: an active event with the configuration and status unchanged
\* was handled while the configuration carried the id of a registered webhook.
C9_Witness ==
    /\ gpc = "idle"
    /\ nEvents > 0
    /\ event.status = "active"
    /\ event.previous.status = "active"
    /\ event.previous.configuration = event.configuration
    /\ outcome = "returned"
    /\ should = [evaluated |-> TRUE, result |-> FALSE]
    /\ event.configuration.hook_id # NoHook
    /\ hooks = {event.configuration.hook_id}

\* C10: the claims handed to the signer hold every decoded claim other than
\* iat and exp with its value, hold no iat, and hold exp equal to the current
\* time in seconds plus 3600, whatever exp the decoded claims had.
C10_ResignedClaims ==
    signed.called =>
        LET decoded == IF payload.defined THEN payload.claims ELSE EmptyClaims
            kept == (DOMAIN decoded) \ {"iat", "exp"}
        IN  /\ DOMAIN signed.claims = kept \cup {"exp"}
            /\ \A k \in kept : signed.claims[k] = decoded[k]
            /\ "iat" \notin DOMAIN signed.claims
            /\ signed.claims["exp"] = (clock \div 1000) + 3600

\* C10 witness: claims with sub, email, iat and exp were re-signed.
C10_Witness ==
    /\ signed.called
    /\ payload.defined
    /\ DOMAIN payload.claims = {"sub", "email", "iat", "exp"}
    /\ signed.claims["sub"] = "u1"

\* C11: every handling of a fetch request, whatever fails in it (no site
\* installation, no public endpoint, no organization id, a host API failure,
\* a token endpoint failure, an undecodable token, a signing failure, an
\* unmatched route), ends with a response that carries a status code: the
\* handler neither throws to the dispatcher nor returns without a response.
C11_EveryFailureIsAResponse ==
    pc = "done" =>
        /\ response.kind \in {"response", "redirect"}
        /\ response.status \in 100..599

\* C11 as amended: a missing site installation is thrown to the dispatcher, a
\* missing public endpoint makes the handler return without a response, and
\* every other handling, whatever fails in it, ends with a response that
\* carries a status code.
C11_FailuresInsideRouterAreResponses ==
    pc = "done" =>
        IF ~environment.siteInstallation.defined
        THEN response.kind = "thrown"
        ELSE IF ~Truthy(environment.siteInstallation.publicEndpoint)
        THEN response.kind = "undefined"
        ELSE /\ response.kind \in {"response", "redirect"}
             /\ response.status \in 100..599

\* C11 witness: the token endpoint could not be reached and the handler
\* answered with status 500.
C11_Witness ==
    /\ pc = "done"
    /\ tokenPosts = 1
    /\ ~tokenResp.answered
    /\ response = Response("fetch failed", 500)

\* No published url is known for the site.
NoPublishedUrl == ~(urls.defined /\ Truthy(urls.published))

\* C12: in the callback handler, whenever the site has no published url the
\* response has status 500 and is not the signing-failure response, whatever
\* the other inputs are once the configuration is complete and the token
\* exchange succeeded, the signing key being absent included.
C12_NoPublishedUrlIs500 ==
    (pc = "done" /\ Truthy(accessToken) /\ NoPublishedUrl) =>
        /\ response.kind = "response"
        /\ response.status = 500
        /\ response # Response("Error: Could not sign JWT token", 500)

\* C12 as amended: once the token exchange succeeded, a site with no
\* published url is never redirected; the response has status 500 when a
\* signing key is present; when the key is absent it is the 400 of the missing
\* private key, unless the access token could not be decoded (500); when the
\* signing succeeded the response is the 500 of the missing published url,
\* distinct from the signing-failure response, which is given exactly when
\* the signing failed.
C12_NoPublishedUrlIs500WithKey ==
    (pc = "done" /\ Truthy(accessToken) /\ NoPublishedUrl) =>
        /\ response.kind = "response"
        /\ Truthy(environment.signingSecret) => response.status = 500
        /\ ~Truthy(environment.signingSecret) =>
              \/ response = Response("Error: Missing private key from site installation", 400)
              \/ response = CaughtByRouter("token could not be decoded", 0)
        /\ (signed.called /\ signed.ok) =>
              /\ response = Response("Error: Either JWT token or site's published URL is missing", 500)
              /\ response # Response("Error: Could not sign JWT token", 500)
        /\ response = Response("Error: Could not sign JWT token", 500)
              <=> (signed.called /\ ~signed.ok)

\* C12 witness: the token was signed, the site has no published url and the
\* handler answered with the 500 of the missing published url.
C12_Witness ==
    /\ pc = "done"
    /\ signed.called
    /\ signed.ok
    /\ NoPublishedUrl
    /\ response = Response("Error: Either JWT token or site's published URL is missing", 500)

\* C13: fetch_visitor_authentication fails with an error thrown to its
\* caller, and issues no redirect, exactly when client_id or okta_domain is
\* absent from the installation's configuration (client_secret is not
\* required); otherwise it redirects to https://{okta_domain}/oauth2/v1/authorize
\* with client_id, response_type=code, response_mode=query, scope=openid,
\* state=state-{location} (location empty when the event has none) and a
\* redirect_uri that is the {publicEndpoint}/visitor-auth/response the callback
\* handler sends as redirect_uri to the token endpoint.
C13_AuthorizeRedirect ==
    LET si == environment.siteInstallation
        conf == si.configuration
        callback == [base |-> si.publicEndpoint, path |-> "/visitor-auth/response"]
    IN  /\ pc = "authDone" =>
              IF conf.client_id \in {Undefined, ""} \/ conf.okta_domain \in {Undefined, ""}
              THEN response.kind = "thrown"
              ELSE /\ response.kind = "redirect"
                   /\ response.url =
                        [target |-> "authorize", okta_domain |-> conf.okta_domain,
                         path |-> "/oauth2/v1/authorize", client_id |-> conf.client_id,
                         response_type |-> "code", redirect_uri |-> callback,
                         response_mode |-> "query", scope |-> "openid",
                         state |-> <<"s", "t", "a", "t", "e", "-">> \o
                                     (IF request.location.present
                                      THEN request.location.val ELSE <<>>)]
        /\ tokenPosts > 0 => tokenRequest.redirect_uri = callback

\* C13 witness: a configuration without client_secret and an event with a
\* location were answered with the authorization redirect.
C13_Witness ==
    /\ pc = "authDone"
    /\ environment.siteInstallation.configuration.client_secret = Undefined
    /\ request.location = Some(<<"/", "a">>)
    /\ response.kind = "redirect"
    /\ response.url.state = <<"s", "t", "a", "t", "e", "-", "/", "a">>

\* C13 witness of the callback: the browser came back from the authorization
\* redirect and the token endpoint was sent the redirect_uri.
C13_WitnessCallback ==
    /\ tokenPosts = 1
    /\ request.state = Some(<<"s", "t", "a", "t", "e", "-", "/", "a">>)
    /\ tokenRequest.redirect_uri = [base |-> "https://int.example/v1", path |-> "/visitor-auth/response"]

\* C14: the callback handler redirects with a jwt_token only if, earlier in
\* the same request, exactly one call of the token endpoint was made and was
\* answered with a success status and a non-empty access_token, and a signing
\* key and a published url were present; every other path ends with a
\* response that is no redirect (or with none) and carries no signed token.
C14_NoTokenWithoutExchange ==
    /\ tokenPosts <= 1
    /\ (pc = "done" /\ response.kind = "redirect") =>
          /\ tokenPosts = 1
          /\ tokenResp.answered
          /\ tokenResp.ok
          /\ tokenResp.body.kind = "json"
          /\ tokenResp.body.access_token \notin {Undefined, ""}
          /\ environment.signingSecret \notin {Undefined, ""}
          /\ urls.defined
          /\ urls.published \notin {Undefined, ""}
          /\ signed.called
          /\ signed.ok
          /\ response.url.target = "published"
          /\ response.url.jwt_token =
                [claims |-> signed.claims, key |-> environment.signingSecret]
    /\ (pc = "done" /\ response.kind # "redirect") =>
          /\ response.kind \in {"response", "undefined", "thrown"}
          /\ response.url = NoUrl

\* C14 witness: after one successful token exchange the handler redirected to
\* the published url with the signed token.
C14_Witness ==
    /\ RedirectedToPublished
    /\ tokenPosts = 1
    /\ tokenResp.ok
    /\ accessToken = "at1"
    /\ response.url.jwt_token.key = "key1"
    /\ response.url.base = "https://docs.example"

====
